---- MODULE Spec2Model ----
(***************************************************************************)
(* Client-side session handling of the crjyouth e-library front end:       *)
(*   SessionCache   (frontend/src/utils/sessionCache.js)                   *)
(*   SessionManager (frontend/src/services/sessionManager.js)              *)
(*   ApiClient      (frontend/src/utils/apiClient.js, the request gateway) *)
(*   App            (frontend/src/App.jsx, identity restore, window.store) *)
(*   Header         (frontend/src/components/Header/Header.jsx, logout)    *)
(*   Login          (frontend/src/components/Login/Login.jsx, handleLogin) *)
(*                                                                         *)
(* The client is one JavaScript event loop.  Every action below is one run *)
(* to completion: the code between two suspension points (await of a       *)
(* fetch, of a timer, or of another promise).  Times are milliseconds.     *)
(* A falsy expiresAt (JavaScript null, undefined or 0) is written 0.       *)
(* A fetch that rejects (network error) is written as status 0.            *)
(*                                                                         *)
(* The server (SessionStore, NonceIssuer, RateLimiter) is followed in      *)
(* specifications of its own, from its specification and from              *)
(* PERFORMANCE_ISSUES.md: its handlers run concurrently, and its clock     *)
(* (stime) is logical in SpecSessions and SpecNonce, seconds in SpecRate.  *)
(***************************************************************************)
EXTENDS Integers, Sequences, FiniteSets, Bags, TLC

\* ------------------------------------------------------------------ bounds
\* Number of concurrent callers (UI callbacks) of the gateway / the manager.
NumProcs == 2

\* The instants Date.now() takes in the model.
Instants == {60000, 180000}
StartTime == CHOOSE t \in Instants : \A u \in Instants : t <= u

\* expiresAt values a stored entry may carry when the page loads (0: none).
StoredExpiries == {0, 60000, 180000, 300000}

\* Lifetimes the server may grant on a refresh (expires_at = now + lifetime).
GrantedLifetimes == {60000, 300000}

\* HTTP statuses the server answers with; 0 is a fetch that rejects.
Statuses == {200, 401, 500}
Outcomes == Statuses \cup {0}

\* ------------------------------------------------------- program constants
\* SESSION_REFRESH_CONFIG
RETRY_BACKOFF == <<250, 1000, 2000>>
MAX_RETRIES_Off == 3 + 1
MAX_RETRIES == 3

\* SessionCache.refreshThreshold = 2 * 60 * 1000
refreshThreshold == 2 * 60 * 1000

\* ------------------------------------------------------------------- state
VARIABLES
    now,            \* Date.now()
    sessionData,    \* SessionCache.sessionData (Null or the cached record)
    lastRefresh,    \* SessionCache.lastRefresh
    storage,        \* localStorage["crjyouth_session_cache"] (NoEntry or text)
    isRefreshing,   \* SessionManager.isRefreshing
    refreshPromise, \* SessionManager.refreshPromise (0: null, else promise id)
    promises,       \* the promises _performRefresh() has returned
    refreshFetches, \* calls sent to POST /api/v1/auth/refresh
    reduxUser,      \* Redux user slice
    windowStore,    \* window.store is set
    localUserItem,  \* localStorage has a "user" item
    sessionItems,   \* sessionStorage is non-empty
    location,       \* window.location.href (path)
    procs,          \* the callers: a bag of their records
    refreshLog,     \* the answers given to the refresh requests, in order
    stime,          \* server: the clock
    sessions,       \* server: SessionStore, the set of session records
    nonces,         \* server: NonceIssuer, the unconsumed nonces
    buckets,        \* server: RateLimiter, the set of buckets
    handlers        \* server: the requests being handled, by handler

cacheVars == <<sessionData, lastRefresh, storage>>
mgrVars == <<isRefreshing, refreshPromise, promises, refreshFetches>>
appVars == <<reduxUser, windowStore, localUserItem, sessionItems, location>>
serverVars == <<stime, sessions, nonces, buckets, handlers>>
sideVars == <<refreshLog, serverVars>>
clientVars == <<now, sessionData, lastRefresh, storage, isRefreshing,
                refreshPromise, promises, refreshFetches, reduxUser,
                windowStore, localUserItem, sessionItems, location, procs>>
vars == <<now, sessionData, lastRefresh, storage, isRefreshing, refreshPromise,
          promises, refreshFetches, reduxUser, windowStore, localUserItem,
          sessionItems, location, procs, refreshLog, stime, sessions, nonces,
          buckets, handlers>>

Null == [null |-> TRUE]
NoEntry == [absent |-> TRUE]
\* A stored text that is not JSON.
Corrupt == [corrupt |-> TRUE]

\* ------------------------------------------------------------ SessionCache
\* JSON.stringify / JSON.parse of the cached record (plain data).
JSONStringify(rec) == [json |-> rec]
JSONParse(text) == text.json

\* new Date(x).getTime() of a server timestamp (an ISO date string).
DateGetTime(stamp) == stamp.iso

\* The user snapshot the server returns at login.
UserU1 == [user_id |-> "u1", first_name |-> "Ann", last_name |-> "Lee",
           is_admin |-> FALSE]

\* A stored entry written by an earlier page, as setSession wrote it.
StoredEntry(exp) ==
    JSONStringify([user |-> UserU1, sessionId |-> "s1", expiresAt |-> exp,
                   lastRefresh |-> StartTime, deviceId |-> "d1"])

LoadFromStorageAtExpiry(cached, t) ==
    IF cached = NoEntry
    THEN [sessionData |-> Null, lastRefresh |-> 0, storage |-> cached]
    ELSE IF cached = Corrupt
    THEN [sessionData |-> Null, lastRefresh |-> 0, storage |-> NoEntry]
    ELSE LET data == JSONParse(cached) IN
         IF data.expiresAt # 0 /\ data.expiresAt >= t
         THEN [sessionData |-> data, lastRefresh |-> data.lastRefresh,
               storage |-> cached]
         ELSE [sessionData |-> Null, lastRefresh |-> 0, storage |-> NoEntry]
\* loadFromStorage(): the cache after construction for a given stored text.
LoadFromStorage(cached, t) ==
    IF cached = NoEntry
    THEN [sessionData |-> Null, lastRefresh |-> 0, storage |-> cached]
    ELSE IF cached = Corrupt
    THEN [sessionData |-> Null, lastRefresh |-> 0, storage |-> NoEntry]
    ELSE LET data == JSONParse(cached) IN
         IF data.expiresAt # 0 /\ data.expiresAt > t
         THEN [sessionData |-> data, lastRefresh |-> data.lastRefresh,
               storage |-> cached]
         ELSE [sessionData |-> Null, lastRefresh |-> 0, storage |-> NoEntry]

\* needsRefresh()
NeedsRefreshOnlyExpired ==
    IF sessionData = Null \/ sessionData.expiresAt = 0
    THEN TRUE
    ELSE LET timeUntilExpiry == sessionData.expiresAt - now IN
         timeUntilExpiry <= 0
NeedsRefreshStrict ==
    IF sessionData = Null \/ sessionData.expiresAt = 0
    THEN TRUE
    ELSE LET timeUntilExpiry == sessionData.expiresAt - now IN
         timeUntilExpiry < refreshThreshold \/ timeUntilExpiry <= 0
NeedsRefresh ==
    IF sessionData = Null \/ sessionData.expiresAt = 0
    THEN TRUE
    ELSE LET timeUntilExpiry == sessionData.expiresAt - now IN
         timeUntilExpiry <= refreshThreshold \/ timeUntilExpiry <= 0

\* isValid(), for the cached record data at time t
IsValidAtInclusive(data, t) ==
    IF data = Null \/ data.expiresAt = 0
    THEN FALSE
    ELSE data.expiresAt >= t
IsValidAt(data, t) ==
    IF data = Null \/ data.expiresAt = 0
    THEN FALSE
    ELSE data.expiresAt > t
IsValid == IsValidAt(sessionData, now)

\* getCachedUser(), for the cached record data
CachedUserOf(data) == IF data = Null THEN Null ELSE data.user
GetCachedUser == CachedUserOf(sessionData)

\* clear()
ClearMemoryOnly ==
    /\ sessionData' = Null
    /\ lastRefresh' = 0
    /\ UNCHANGED storage
ClearKeepsMarker ==
    /\ sessionData' = Null
    /\ UNCHANGED lastRefresh
    /\ storage' = NoEntry
Clear ==
    /\ sessionData' = Null
    /\ lastRefresh' = 0
    /\ storage' = NoEntry

UpdateExpiryMemoryOnly(newExpiresAt) ==
    IF sessionData # Null
    THEN /\ sessionData' = [sessionData EXCEPT !.expiresAt = DateGetTime(newExpiresAt)]
         /\ lastRefresh' = now
         /\ UNCHANGED storage
    ELSE UNCHANGED cacheVars
UpdateExpiryCreatesEntry(newExpiresAt) ==
    LET data == IF sessionData # Null THEN sessionData
                ELSE [user |-> Null, sessionId |-> "", expiresAt |-> 0,
                      lastRefresh |-> 0, deviceId |-> ""] IN
    /\ sessionData' = [data EXCEPT !.expiresAt = DateGetTime(newExpiresAt)]
    /\ lastRefresh' = now
    /\ storage' = JSONStringify(sessionData')
\* updateExpiry(newExpiresAt), with its saveToStorage()
UpdateExpiry(newExpiresAt) ==
    IF sessionData # Null
    THEN /\ sessionData' = [sessionData EXCEPT !.expiresAt = DateGetTime(newExpiresAt)]
         /\ lastRefresh' = now
         /\ storage' = JSONStringify(sessionData')
    ELSE UNCHANGED cacheVars

\* setSession(sessionData), s.expiresAt being Null (falsy) or a timestamp
SetSessionKeepsDevice(s) ==
    LET cacheData == [user |-> s.user, sessionId |-> s.sessionId,
                      expiresAt |-> IF s.expiresAt # Null
                                    THEN DateGetTime(s.expiresAt) ELSE 0,
                      lastRefresh |-> now,
                      deviceId |-> IF sessionData # Null
                                   THEN sessionData.deviceId ELSE s.deviceId] IN
    /\ sessionData' = cacheData
    /\ lastRefresh' = cacheData.lastRefresh
    /\ storage' = JSONStringify(cacheData)
SetSession(s) ==
    LET cacheData == [user |-> s.user, sessionId |-> s.sessionId,
                      expiresAt |-> IF s.expiresAt # Null
                                    THEN DateGetTime(s.expiresAt) ELSE 0,
                      lastRefresh |-> now,
                      deviceId |-> s.deviceId] IN
    /\ sessionData' = cacheData
    /\ lastRefresh' = cacheData.lastRefresh
    /\ storage' = JSONStringify(cacheData)

\* ---------------------------------------------------------------- callers
NoResult == [kind |-> "none"]
Response(status) == [kind |-> "response", status |-> status]
Thrown(error) == [kind |-> "throw", error |-> error]
Returned(b) == [kind |-> "value", value |-> b]

InitProc ==
    [op |-> "none", pc |-> "idle", attempt |-> 0, sent |-> 0,
     initStatus |-> 0, gotInit |-> FALSE,
     refreshCalls |-> 0, checkCalls |-> 0,
     sawInFlight |-> FALSE, issuedFetch |-> FALSE, awaited |-> 0,
     settled |-> FALSE, refreshSuccess |-> FALSE,
     retryLog |-> <<>>, delays |-> <<>>,
     didLogout |-> FALSE, sentAtLogout |-> 0, result |-> NoResult,
     phase |-> "", arg |-> Null, body |-> Null, reply |-> Null,
     nonce |-> "", failure |-> Null, before |-> Null]

\* userSlice initialState
InitialUser == [firstname |-> "", lastname |-> "", user_id |-> "",
                is_admin |-> FALSE]

\* userSlice reducers
LogoutUserReducerKeepsId(state) == [InitialUser EXCEPT !.user_id = state.user_id]
LogoutUserReducer(state) ==
    [state EXCEPT !.firstname = "", !.lastname = "", !.user_id = "",
                  !.is_admin = FALSE]
LoginUserReducer(state, payload) ==
    [state EXCEPT !.firstname = payload.firstname,
                  !.lastname = payload.lastname,
                  !.user_id = payload.user_id,
                  !.is_admin = payload.is_admin]

\* App's mount effect: restore the identity from the cache.
RestoreIdentity(data, t) ==
    LET cachedUser == CachedUserOf(data) IN
    IF cachedUser # Null /\ IsValidAt(data, t)
    THEN LoginUserReducer(InitialUser,
             [firstname |-> cachedUser.first_name, lastname |-> cachedUser.last_name,
              user_id |-> cachedUser.user_id, is_admin |-> cachedUser.is_admin])
    ELSE InitialUser

\* Before any request is answered: nothing is logged, and the server holds
\* no session, no nonce, no bucket and handles no request.
SideInit ==
    /\ refreshLog = <<>>
    /\ stime = 0
    /\ sessions = {}
    /\ nonces = {}
    /\ buckets = {}
    /\ handlers = <<>>

\* The page has loaded: the singletons are constructed (the cache has read
\* the stored entry an earlier page may have left) and App has mounted (it
\* has restored the identity and set window.store).
Init ==
    /\ now = StartTime
    /\ \E cached \in {NoEntry, Corrupt} \cup {StoredEntry(e) : e \in StoredExpiries} :
          LET c == LoadFromStorage(cached, StartTime) IN
          /\ sessionData = c.sessionData
          /\ lastRefresh = c.lastRefresh
          /\ storage = c.storage
          /\ reduxUser = RestoreIdentity(c.sessionData, StartTime)
    /\ isRefreshing = FALSE
    /\ refreshPromise = 0
    /\ promises = <<>>
    /\ refreshFetches = 0
    /\ windowStore = TRUE
    /\ localUserItem = FALSE
    /\ sessionItems = FALSE
    /\ location = "/"
    /\ procs = [c \in {InitProc} |-> NumProcs]
    /\ SideInit

\* The callers are anonymous (UI callbacks of one event loop): procs is the
\* bag of their records (position, locals and history of each).
Callers == BagToSet(procs)

\* Caller p (its record as it stands in procs) goes on as rec.
Set(p, rec) == procs' = (procs (-) SetToBag({p})) (+) SetToBag({rec})

\* The caller's refreshSession() call has returned: its locals are gone, its
\* return value (settled, refreshSuccess) stays with the caller.
Returns(rec) == [rec EXCEPT !.sawInFlight = FALSE, !.issuedFetch = FALSE,
                            !.awaited = 0]

\* ---------------------------------------------------------- SessionManager
\* logoutUser()
LogoutUser ==
    /\ reduxUser' = IF windowStore THEN LogoutUserReducer(reduxUser) ELSE reduxUser
    /\ Clear
    /\ localUserItem' = FALSE
    /\ sessionItems' = FALSE
    /\ location' = "/login"
    /\ UNCHANGED windowStore

\* refreshSession() line 35: is a refresh in flight?
RefreshNeverInFlight == FALSE
RefreshInFlight == isRefreshing

\* refreshSession() up to its await, called by p (record rec before the call).
\* Joining returns the held promise; otherwise _performRefresh() runs up to
\* its fetch, which sends the refresh request.
RefreshSession(p, rec) ==
    LET r == [rec EXCEPT !.refreshCalls = @ + 1,
                         !.sawInFlight = isRefreshing,
                         !.pc = "awaitRefresh"] IN
    IF RefreshInFlight
    THEN /\ Set(p, [r EXCEPT !.awaited = refreshPromise, !.issuedFetch = FALSE])
         /\ UNCHANGED <<mgrVars, cacheVars, appVars>>
    ELSE /\ isRefreshing' = TRUE
         /\ promises' = Append(promises, [state |-> "pending", value |-> FALSE])
         /\ refreshPromise' = Len(promises) + 1
         /\ refreshFetches' = refreshFetches + 1
         /\ Set(p, [r EXCEPT !.awaited = Len(promises) + 1, !.issuedFetch = TRUE])
         /\ UNCHANGED <<cacheVars, appVars>>

\* response.ok
ResponseOk(status) == status >= 200 /\ status <= 299

\* _performRefresh() from the answer of its fetch to its return: promise k
\* resolves.  stamp is data.expires_at (Null when the body carries none).
PerformRefreshReturn(k, status, stamp) ==
    /\ k \in 1..Len(promises)
    /\ promises[k].state = "pending"
    /\ IF ResponseOk(status)
       THEN /\ IF stamp # Null THEN UpdateExpiry(stamp) ELSE UNCHANGED cacheVars
            /\ promises' = [promises EXCEPT ![k] = [state |-> "resolved", value |-> TRUE]]
       ELSE /\ UNCHANGED cacheVars
            /\ promises' = [promises EXCEPT ![k] = [state |-> "resolved", value |-> FALSE]]
    /\ UNCHANGED <<now, serverVars, isRefreshing, refreshPromise, refreshFetches,
                   appVars, procs>>

RefreshFinallyKeepsFlag == UNCHANGED isRefreshing /\ refreshPromise' = 0
\* refreshSession(): the finally block.
RefreshFinally == isRefreshing' = FALSE /\ refreshPromise' = 0

\* refreshSession() after its await: the caller that started the refresh runs
\* the finally block; a caller that joined only receives the promise's value.
RefreshSettle(p) ==
    /\ p.pc = "awaitRefresh"
    /\ promises[p.awaited].state = "resolved"
    /\ IF p.issuedFetch
       THEN RefreshFinally
       ELSE UNCHANGED <<isRefreshing, refreshPromise>>
    /\ Set(p, [p EXCEPT !.settled = TRUE,
                         !.refreshSuccess = promises[p.awaited].value,
                         !.pc = "afterRefresh"])
    /\ UNCHANGED <<now, sideVars, promises, refreshFetches, cacheVars, appVars>>

\* retryWithBackoff: the delay before retry number attempt + 1.
RetryDelayOneBased(attempt) ==
    IF attempt + 1 >= 1 /\ attempt + 1 < Len(RETRY_BACKOFF)
    THEN RETRY_BACKOFF[attempt + 2]
    ELSE RETRY_BACKOFF[Len(RETRY_BACKOFF)]
RetryDelay(attempt) ==
    IF attempt >= 0 /\ attempt < Len(RETRY_BACKOFF) /\ RETRY_BACKOFF[attempt + 1] # 0
    THEN RETRY_BACKOFF[attempt + 1]
    ELSE RETRY_BACKOFF[Len(RETRY_BACKOFF)]

\* The request gateway's failure when handleApiError returns null.
AuthFailed == Thrown("Authentication failed")

\* retryWithBackoff(requestFn, attempt) up to its first await, for caller p
\* (record rec before the call).  A null return makes request() throw.
RetryWithBackoff(p, rec, attempt) ==
    IF attempt >= MAX_RETRIES
    THEN /\ LogoutUser
         /\ Set(p, [rec EXCEPT !.didLogout = TRUE, !.sentAtLogout = rec.sent,
                               !.result = AuthFailed, !.pc = "done"])
         /\ UNCHANGED mgrVars
    ELSE /\ Set(p, [rec EXCEPT !.attempt = attempt,
                               !.delays = Append(@, RetryDelay(attempt)),
                               !.pc = "retryWait"])
         /\ UNCHANGED <<mgrVars, cacheVars, appVars>>

\* status === 401
IsUnauthorizedNever(status) == FALSE
IsUnauthorizedAnyError(status) == status >= 400
IsUnauthorized(status) == status = 401

\* handleApiError line 89: did the refresh succeed?
RefreshSucceededAlways(rec) == TRUE
RefreshSucceeded(rec) == rec.refreshSuccess

\* retryWithBackoff lines 123-126: the retried request still received 401.
StillUnauthorizedRefreshAgain(p, rec) == RefreshSession(p, rec)
StillUnauthorized(p, rec) == RetryWithBackoff(p, rec, rec.attempt + 1)

\* retryWithBackoff lines 129-132: the retried request threw.
RetryThrewSameAttempt(p, rec) == RetryWithBackoff(p, rec, rec.attempt)
RetryThrew(p, rec) == RetryWithBackoff(p, rec, rec.attempt + 1)

\* The callers that go through ApiClient.request: plain requests, and
\* handleLogin through getJSON / postJSON.
GatewayOps == {"request", "login"}

\* handleApiError(response, originalRequest) up to its await, for caller p.
HandleApiError(p, rec, status) ==
    IF IsUnauthorized(status)
    THEN RefreshSession(p, rec)
    ELSE /\ Set(p, [rec EXCEPT !.result = Response(status), !.pc = "done"])
         /\ UNCHANGED <<mgrVars, cacheVars, appVars>>

\* handleApiError after `await this.refreshSession()` (lines 89-96), and
\* ApiClient.request lines 39-44 on its return value.
HandleApiErrorResume(p) ==
    /\ p.op \in GatewayOps
    /\ p.pc = "afterRefresh"
    /\ IF RefreshSucceeded(p)
       THEN RetryWithBackoff(p, Returns(p), 0)
       ELSE /\ LogoutUser
            /\ Set(p, [Returns(p) EXCEPT !.didLogout = TRUE,
                                          !.sentAtLogout = p.sent,
                                          !.result = AuthFailed, !.pc = "done"])
            /\ UNCHANGED mgrVars
    /\ UNCHANGED <<now, sideVars>>

\* retryWithBackoff: the timer fires and requestFn() sends the request again.
RetrySend(p) ==
    /\ p.pc = "retryWait"
    /\ Set(p, [p EXCEPT !.sent = @ + 1, !.pc = "retryFetch"])
    /\ UNCHANGED <<now, sideVars, mgrVars, cacheVars, appVars>>

\* retryWithBackoff lines 121-132: the retried request is answered (or its
\* fetch rejects, outcome 0, which the catch block treats as one more attempt).
RetryRespond(p, outcome) ==
    /\ p.pc = "retryFetch"
    /\ LET rec == [p EXCEPT !.retryLog = Append(@, outcome)] IN
       IF outcome = 0
       THEN RetryThrew(p, rec)
       ELSE IF IsUnauthorized(outcome)
            THEN StillUnauthorized(p, rec)
            ELSE /\ Set(p, [rec EXCEPT !.result = Response(outcome), !.pc = "done"])
                 /\ UNCHANGED <<mgrVars, cacheVars, appVars>>
    /\ UNCHANGED <<now, sideVars>>

\* ---------------------------------------------------------------- ApiClient
\* request(endpoint, options) up to `await fetch(url, requestOptions)`.
RequestSend(p) ==
    /\ p.pc = "idle"
    /\ Set(p, [p EXCEPT !.op = "request", !.sent = 1, !.pc = "fetch"])
    /\ UNCHANGED <<now, sideVars, mgrVars, cacheVars, appVars>>

\* request() lines 30-47: the first fetch is answered, or rejects (outcome 0)
\* and request() rejects with the network error.
RequestRespond(p, outcome) ==
    /\ p.pc = "fetch"
    /\ LET rec == [p EXCEPT !.initStatus = outcome, !.gotInit = TRUE] IN
       IF outcome = 0
       THEN /\ Set(p, [rec EXCEPT !.result = Thrown("network"), !.pc = "done"])
            /\ UNCHANGED <<mgrVars, cacheVars, appVars>>
       ELSE IF IsUnauthorized(outcome)
            THEN HandleApiError(p, rec, outcome)
            ELSE /\ Set(p, [rec EXCEPT !.result = Response(outcome), !.pc = "done"])
                 /\ UNCHANGED <<mgrVars, cacheVars, appVars>>
    /\ UNCHANGED <<now, sideVars>>

\* ------------------------------------------------- checkAndRefreshSession()
\* checkAndRefreshSession() up to its await (or to its return false).
CheckAndRefreshSession(p) ==
    /\ p.pc = "idle"
    /\ LET rec == [p EXCEPT !.op = "check", !.checkCalls = @ + 1] IN
       IF NeedsRefresh
       THEN RefreshSession(p, rec)
       ELSE /\ Set(p, [rec EXCEPT !.result = Returned(FALSE), !.pc = "done"])
            /\ UNCHANGED <<mgrVars, cacheVars, appVars>>
    /\ UNCHANGED <<now, sideVars>>

\* checkAndRefreshSession() after `await this.refreshSession()`: returns it.
CheckAndRefreshResume(p) ==
    /\ p.op = "check"
    /\ p.pc = "afterRefresh"
    /\ Set(p, [Returns(p) EXCEPT !.result = Returned(p.refreshSuccess),
                                  !.pc = "done"])
    /\ UNCHANGED <<now, sideVars, mgrVars, cacheVars, appVars>>

\* ------------------------------------------------------------- environment
\* Time passes.
Tick ==
    /\ \E t \in Instants : t > now /\ now' = t
    /\ UNCHANGED <<mgrVars, cacheVars, appVars, procs, sideVars>>

\* The server answers the refresh request, or the fetch rejects.
RefreshRespond ==
    \E k \in 1..Len(promises), outcome \in Outcomes,
       stamp \in {Null} \cup {[iso |-> now + d] : d \in GrantedLifetimes} :
        /\ (~ResponseOk(outcome) => stamp = Null)
        /\ PerformRefreshReturn(k, outcome, stamp)
        /\ UNCHANGED refreshLog

Next ==
    \/ Tick
    \/ \E p \in Callers : RequestSend(p)
    \/ \E p \in Callers, outcome \in Outcomes : RequestRespond(p, outcome)
    \/ \E p \in Callers : CheckAndRefreshSession(p)
    \/ RefreshRespond
    \/ \E p \in Callers : RefreshSettle(p)
    \/ \E p \in Callers : HandleApiErrorResume(p)
    \/ \E p \in Callers : CheckAndRefreshResume(p)
    \/ \E p \in Callers : RetrySend(p)
    \/ \E p \in Callers, outcome \in Outcomes : RetryRespond(p, outcome)

Spec == Init /\ [][Next]_vars

\* ------------------------------------------------------------------ Header
\* Header.jsx line 36: the logout entries are rendered for a logged-in user.
IsLoggedIn == reduxUser.user_id # ""

\* dispatch(logoutUser()); navigate("/")
DispatchLogoutAndGoHome ==
    /\ reduxUser' = LogoutUserReducer(reduxUser)
    /\ location' = "/"
    /\ UNCHANGED <<windowStore, localUserItem, sessionItems>>

\* handleLogout up to `await fetch(".../api/v1/logout")` (lines 56-67)
HandleLogout(p) ==
    /\ p.pc = "idle"
    /\ IsLoggedIn
    /\ Clear
    /\ Set(p, [p EXCEPT !.op = "logout", !.pc = "logoutFetch"])
    /\ UNCHANGED <<now, sideVars, mgrVars, appVars>>

\* The logout fetch settles: the server answers, or the fetch rejects.
LogoutSettles(p, outcome) ==
    /\ p.op = "logout"
    /\ p.pc = "logoutFetch"
    /\ Set(p, [p EXCEPT !.gotInit = TRUE, !.initStatus = outcome,
                        !.pc = "logoutResume"])
    /\ UNCHANGED <<now, sideVars, mgrVars, cacheVars, appVars>>

\* handleLogout after the await (lines 68-83)
HandleLogoutResume(p) ==
    /\ p.op = "logout"
    /\ p.pc = "logoutResume"
    /\ IF p.initStatus # 0 /\ ResponseOk(p.initStatus)
       THEN UNCHANGED cacheVars
       ELSE Clear
    /\ DispatchLogoutAndGoHome
    /\ Set(p, [p EXCEPT !.pc = "done"])
    /\ UNCHANGED <<now, sideVars, mgrVars>>

\* handleLogoutAll up to the fetch of logoutAllSessions() (lines 86-91, and
\* sessionManager.js lines 158-166)
HandleLogoutAll(p) ==
    /\ p.pc = "idle"
    /\ IsLoggedIn
    /\ Clear
    /\ Set(p, [p EXCEPT !.op = "logoutAll", !.pc = "logoutAllFetch"])
    /\ UNCHANGED <<now, sideVars, mgrVars, appVars>>

\* The logout-all fetch settles: the server answers, or the fetch rejects.
LogoutAllSettles(p, outcome) ==
    /\ p.op = "logoutAll"
    /\ p.pc = "logoutAllFetch"
    /\ Set(p, [p EXCEPT !.gotInit = TRUE, !.initStatus = outcome,
                        !.pc = "logoutAllResume"])
    /\ UNCHANGED <<now, sideVars, mgrVars, cacheVars, appVars>>

\* logoutAllSessions() after its await: the value it returns.
LogoutAllSessions(outcome) ==
    IF outcome = 0
    THEN TRUE
    ELSE IF ResponseOk(outcome) THEN TRUE ELSE TRUE

\* handleLogoutAll after `await sessionManager.logoutAllSessions()`
HandleLogoutAllResume(p) ==
    /\ p.op = "logoutAll"
    /\ p.pc = "logoutAllResume"
    /\ LET success == LogoutAllSessions(p.initStatus) IN
       /\ IF success THEN UNCHANGED cacheVars ELSE Clear
       /\ DispatchLogoutAndGoHome
       /\ Set(p, [p EXCEPT !.result = Returned(success), !.pc = "done"])
    /\ UNCHANGED <<now, sideVars, mgrVars>>

\* The page as a logged-in user may find it: as Init, and an earlier page
\* may have left a "user" item and session-storage items behind.
InitLogout ==
    /\ now = StartTime
    /\ \E cached \in {NoEntry, Corrupt} \cup {StoredEntry(e) : e \in StoredExpiries} :
          LET c == LoadFromStorage(cached, StartTime) IN
          /\ sessionData = c.sessionData
          /\ lastRefresh = c.lastRefresh
          /\ storage = c.storage
          /\ reduxUser = RestoreIdentity(c.sessionData, StartTime)
    /\ isRefreshing = FALSE
    /\ refreshPromise = 0
    /\ promises = <<>>
    /\ refreshFetches = 0
    /\ windowStore = TRUE
    /\ \E legacy \in BOOLEAN : localUserItem = legacy /\ sessionItems = legacy
    /\ location = "/"
    /\ procs = [c \in {InitProc} |-> NumProcs]
    /\ SideInit

\* What the client does on its own: continuations of settled promises and
\* timers that fire.
ClientStep ==
    \/ \E p \in Callers : HandleLogoutResume(p)
    \/ \E p \in Callers : HandleLogoutAllResume(p)
    \/ \E p \in Callers : RefreshSettle(p)
    \/ \E p \in Callers : HandleApiErrorResume(p)
    \/ \E p \in Callers : RetrySend(p)

NextLogout ==
    \/ Tick
    \/ \E p \in Callers : HandleLogout(p)
    \/ \E p \in Callers, outcome \in Outcomes : LogoutSettles(p, outcome)
    \/ \E p \in Callers : HandleLogoutAll(p)
    \/ \E p \in Callers, outcome \in Outcomes : LogoutAllSettles(p, outcome)
    \/ \E p \in Callers : RequestSend(p)
    \/ \E p \in Callers, outcome \in Outcomes : RequestRespond(p, outcome)
    \/ RefreshRespond
    \/ \E p \in Callers, outcome \in Outcomes : RetryRespond(p, outcome)
    \/ ClientStep

SpecLogout == InitLogout /\ [][NextLogout]_vars

\* The event loop runs every continuation that is ready; nothing obliges the
\* network to answer or the user to click.
FairSpecLogout == SpecLogout /\ WF_vars(ClientStep)

\* ------------------------------------------- SessionCache, called directly
\* Another user the server may return.
UserU2 == [user_id |-> "u2", first_name |-> "Bo", last_name |-> "Kim",
           is_admin |-> TRUE]

\* Expiry instants a session handed to setSession may carry.
ArgExpiries == {60000, 180000, 300000}

\* The sessions handed to setSession.
SessionArgs ==
    {[user |-> u.user, sessionId |-> u.sessionId, expiresAt |-> e,
      deviceId |-> u.deviceId] :
        u \in {[user |-> UserU1, sessionId |-> "s1", deviceId |-> "d1"],
               [user |-> UserU2, sessionId |-> "s2", deviceId |-> "d2"]},
        e \in {Null} \cup {[iso |-> t] : t \in ArgExpiries}}

\* The value of a call that returns nothing.
Undefined == Returned("undefined")

\* The methods of the cache are synchronous: a call is one step.  The record
\* of the caller keeps the call (op, arg), the cache it found (before) and
\* the value the call returned (result).
CacheCall(p, op, arg, result) ==
    /\ p.pc = "idle"
    /\ Set(p, [p EXCEPT !.op = op, !.arg = arg, !.result = result,
                        !.before = <<sessionData, lastRefresh, storage>>,
                        !.pc = "done"])
    /\ UNCHANGED <<now, sideVars, mgrVars, appVars>>

SetSessionCall(p, s) == SetSession(s) /\ CacheCall(p, "setSession", s, Undefined)
ClearCall(p) == Clear /\ CacheCall(p, "clear", Null, Undefined)
NeedsRefreshCall(p) ==
    /\ UNCHANGED cacheVars
    /\ CacheCall(p, "needsRefresh", Null, Returned(NeedsRefresh))
IsValidCall(p) ==
    /\ UNCHANGED cacheVars
    /\ CacheCall(p, "isValid", Null, Returned(IsValid))

UpdateExpiryCall(p, stamp) ==
    UpdateExpiry(stamp) /\ CacheCall(p, "updateExpiry", stamp, Undefined)

\* The page is loaded anew: a fresh SessionCache is constructed and reads the
\* stored entry (what the last page left, or a text that is not JSON), and
\* App mounts and restores the identity from it.
PageLoad(p, cached) ==
    LET c == LoadFromStorage(cached, now) IN
    /\ p.pc = "idle"
    /\ sessionData' = c.sessionData
    /\ lastRefresh' = c.lastRefresh
    /\ storage' = c.storage
    /\ reduxUser' = RestoreIdentity(c.sessionData, now)
    /\ Set(p, [p EXCEPT !.op = "load", !.arg = cached, !.result = Undefined,
                        !.before = <<sessionData, lastRefresh, storage>>,
                        !.pc = "done"])
    /\ UNCHANGED <<now, sideVars, mgrVars, windowStore, localUserItem,
                   sessionItems, location>>

\* The caller goes on and may call again.
CallReturns(p) ==
    /\ p.pc = "done"
    /\ Set(p, InitProc)
    /\ UNCHANGED <<now, sideVars, mgrVars, cacheVars, appVars>>

\* The page has loaded; one caller, whose calls follow one another.
InitCache ==
    /\ now = StartTime
    /\ \E cached \in {NoEntry, Corrupt} \cup {StoredEntry(e) : e \in StoredExpiries} :
          LET c == LoadFromStorage(cached, StartTime) IN
          /\ sessionData = c.sessionData
          /\ lastRefresh = c.lastRefresh
          /\ storage = c.storage
          /\ reduxUser = RestoreIdentity(c.sessionData, StartTime)
    /\ isRefreshing = FALSE
    /\ refreshPromise = 0
    /\ promises = <<>>
    /\ refreshFetches = 0
    /\ windowStore = TRUE
    /\ localUserItem = FALSE
    /\ sessionItems = FALSE
    /\ location = "/"
    /\ procs = SetToBag({InitProc})
    /\ SideInit

NextCache ==
    \/ Tick
    \/ \E p \in Callers, s \in SessionArgs : SetSessionCall(p, s)
    \/ \E p \in Callers : ClearCall(p)
    \/ \E p \in Callers : NeedsRefreshCall(p)
    \/ \E p \in Callers : IsValidCall(p)
    \/ \E p \in Callers, t \in ArgExpiries : UpdateExpiryCall(p, [iso |-> t])
    \/ \E p \in Callers, cached \in {storage, Corrupt} : PageLoad(p, cached)
    \/ \E p \in Callers : CallReturns(p)

SpecCache == InitCache /\ [][NextCache]_vars

\* ------------------------------------------- ApiClient JSON methods, Login
\* `HTTP ${response.status}: ${response.statusText}`
HttpErrorText(status) == [http |-> status]

\* handleResponse(response) for a response that is not ok: the Error it
\* throws; error is errorData.error, Null when the body has none.
HandleResponseError(status, error) ==
    [message |-> IF error # Null THEN error ELSE HttpErrorText(status)]

\* The error texts a server response may carry (Null: none).
ServerErrors == {Null, [text |-> "rate_limited"]}

\* What the user typed, and what the browser reports as device.
Email == "ann@example.org"
Password == "secret"
LoginDevices == {"d1", "d2"}
Nonces == {"n1", "n2"}

\* loginData
LoginData(nonce, device) ==
    [email |-> Email, password |-> Password, nonce |-> nonce,
     device_id |-> device]

\* The bodies of an ok answer to POST /api/v1/login.
LoginReplies ==
    {[user |-> u, session_id |-> "s2", expires_at |-> [iso |-> now + d]] :
        u \in {Null, UserU1, UserU2}, d \in GrantedLifetimes}

\* The argument of setSession in handleLogin.
LoginSessionOtherDevice(reply, body) ==
    [user |-> reply.user, sessionId |-> reply.session_id,
     expiresAt |-> reply.expires_at, deviceId |-> "unknown"]
LoginSession(reply, body) ==
    [user |-> reply.user, sessionId |-> reply.session_id,
     expiresAt |-> reply.expires_at, deviceId |-> body.device_id]

\* The call of ApiClient.request has returned to handleLogin: its locals
\* are gone, its outcome (result) stays with the handler.
RequestReturned(rec) ==
    [rec EXCEPT !.attempt = 0, !.sent = 0, !.initStatus = 0, !.gotInit = FALSE,
                !.settled = FALSE, !.refreshSuccess = FALSE,
                !.retryLog = <<>>, !.delays = <<>>,
                !.didLogout = FALSE, !.sentAtLogout = 0]

\* A new call of ApiClient.request by the handler, up to its fetch.
NewRequest(rec) ==
    [RequestReturned(rec) EXCEPT !.sent = 1, !.result = NoResult, !.pc = "fetch"]

\* handleLogin's catch and finally: the handler ends with the error it caught.
LoginFails(p, rec, error) ==
    /\ Set(p, [RequestReturned(rec) EXCEPT !.failure = error,
                                           !.phase = "failed",
                                           !.pc = "finished"])
    /\ UNCHANGED <<mgrVars, cacheVars, appVars>>

\* Login.jsx lines 16-22: the form is there unless a valid session is cached.
LoginFormShown == ~(GetCachedUser # Null /\ IsValid)

\* handleLogin up to the fetch of getJSON("/api/v1/nonce") (lines 25-35)
HandleLogin(p) ==
    /\ p.pc = "idle"
    /\ LoginFormShown
    /\ Set(p, NewRequest([p EXCEPT !.op = "login", !.phase = "nonce",
                              !.before = <<sessionData, lastRefresh, storage>>]))
    /\ UNCHANGED <<now, sideVars, mgrVars, cacheVars, appVars>>

\* getJSON("/api/v1/nonce") has its response (or its error); handleLogin goes
\* on to postJSON("/api/v1/login", loginData) (lines 35-54).
LoginNonceReturns(p, nonce, error, device) ==
    /\ p.op = "login"
    /\ p.phase = "nonce"
    /\ p.pc = "done"
    /\ IF p.result.kind = "throw"
       THEN LoginFails(p, p, [message |-> [text |-> p.result.error]])
       ELSE IF ~ResponseOk(p.result.status)
       THEN LoginFails(p, [p EXCEPT !.reply = [error |-> error]],
                       HandleResponseError(p.result.status, error))
       ELSE /\ Set(p, NewRequest([p EXCEPT !.nonce = nonce,
                                         !.body = LoginData(nonce, device),
                                         !.phase = "login"]))
            /\ UNCHANGED <<mgrVars, cacheVars, appVars>>
    /\ UNCHANGED <<now, sideVars>>

\* postJSON("/api/v1/login") has its response (or its error); handleLogin
\* lines 56-85.
LoginPostReturns(p, reply, error) ==
    /\ p.op = "login"
    /\ p.phase = "login"
    /\ p.pc = "done"
    /\ IF p.result.kind = "throw"
       THEN LoginFails(p, p, [message |-> [text |-> p.result.error]])
       ELSE IF ~ResponseOk(p.result.status)
       THEN LoginFails(p, [p EXCEPT !.reply = [error |-> error]],
                       HandleResponseError(p.result.status, error))
       ELSE IF reply.user # Null
       THEN /\ SetSession(LoginSession(reply, p.body))
            /\ reduxUser' = LoginUserReducer(reduxUser,
                                [user_id |-> reply.user.user_id,
                                 firstname |-> reply.user.first_name,
                                 lastname |-> reply.user.last_name,
                                 is_admin |-> reply.user.is_admin])
            /\ location' = "/books"
            /\ Set(p, [RequestReturned(p) EXCEPT !.reply = reply,
                                                 !.phase = "success",
                                                 !.pc = "finished"])
            /\ UNCHANGED <<mgrVars, windowStore, localUserItem, sessionItems>>
       ELSE /\ Set(p, [RequestReturned(p) EXCEPT !.reply = reply,
                                                 !.phase = "nouser",
                                                 !.pc = "finished"])
            /\ UNCHANGED <<mgrVars, cacheVars, appVars>>
    /\ UNCHANGED <<now, sideVars>>

\* The submit button is disabled while a login is under way (isLoading):
\* one handleLogin at a time.  The model follows one login per page.
InitLogin == InitCache

NextLogin ==
    \/ Tick
    \/ \E p \in Callers : HandleLogin(p)
    \/ \E p \in Callers, outcome \in Outcomes : RequestRespond(p, outcome)
    \/ RefreshRespond
    \/ \E p \in Callers : RefreshSettle(p)
    \/ \E p \in Callers : HandleApiErrorResume(p)
    \/ \E p \in Callers : RetrySend(p)
    \/ \E p \in Callers, outcome \in Outcomes : RetryRespond(p, outcome)
    \/ \E p \in Callers, nonce \in Nonces, error \in ServerErrors,
          device \in LoginDevices : LoginNonceReturns(p, nonce, error, device)
    \/ \E p \in Callers, reply \in LoginReplies, error \in ServerErrors :
          LoginPostReturns(p, reply, error)

SpecLogin == InitLogin /\ [][NextLogin]_vars

\* ================================================================== claims
\* How many callers have their record in S.
NumberOf(S) == BagCardinality([c \in S |-> CopiesIn(c, procs)])

Requesters == {p \in Callers : p.op = "request"}
Checkers == {p \in Callers : p.op = "check"}
RefreshCallers == {p \in Callers : p.refreshCalls > 0}
InRefresh == {p \in Callers : p.pc \in {"awaitRefresh", "afterRefresh"}}

\* How many retry attempts the attempt-delay table is probed beyond.
ProbeAttempts == 6

\* C1: callers of refreshSession() that arrive while a refresh is in flight
\* send no refresh request of their own and receive the outcome of the
\* in-flight refresh: at most one refresh request is pending at any time, a
\* caller that found a refresh in flight awaits a promise without sending,
\* and all callers awaiting the same refresh get its one result.
C1_RefreshDeduplicated ==
    /\ Cardinality({k \in 1..Len(promises) : promises[k].state = "pending"}) <= 1
    /\ \A p \in InRefresh :
          /\ p.sawInFlight => ~p.issuedFetch
          /\ p.awaited \in 1..Len(promises)
          /\ p.settled =>
                p.refreshSuccess = promises[p.awaited].value
    /\ \A p, q \in InRefresh :
          /\ (p.awaited = q.awaited /\ p.settled /\ q.settled)
                => p.refreshSuccess = q.refreshSuccess
          /\ (p # q /\ p.issuedFetch /\ q.issuedFetch)
                => p.awaited # q.awaited

\* Two callers shared one refresh: the second arrived while it was in flight,
\* both have its outcome, and one refresh request was sent in all.
C1_Witness ==
    \E p, q \in InRefresh :
        /\ p # q
        /\ p.issuedFetch
        /\ q.sawInFlight
        /\ p.awaited = q.awaited
        /\ p.settled /\ q.settled
        /\ refreshFetches = 1

\* C2: a handleApiError call for a 401 calls refreshSession() exactly once,
\* also while and after the retries, whatever the retried requests return.
C2_OneRefreshPerHandledError ==
    \A p \in Requesters :
        (p.gotInit /\ p.initStatus = 401) => p.refreshCalls = 1

\* A caller whose retries received 401 twice more and still made one refresh call.
C2_Witness ==
    \E p \in Requesters :
        /\ Len(p.retryLog) >= 2
        /\ p.retryLog[1] = 401 /\ p.retryLog[2] = 401
        /\ p.refreshCalls = 1

\* C3: after a successful refresh, three retries that all receive 401 end the
\* call: logout is performed, request() gets null (and throws), and the call
\* sends nothing after the logout.
C3_ExhaustedRetriesLogout ==
    \A p \in Requesters :
        /\ (/\ p.settled /\ p.refreshSuccess
            /\ p.retryLog = <<401, 401, 401>>)
              => /\ p.pc = "done"
                 /\ p.didLogout
                 /\ p.result = AuthFailed
        /\ p.didLogout =>
              /\ p.pc = "done"
              /\ p.sent = p.sentAtLogout

C3_Witness ==
    \E p \in Requesters :
        /\ p.refreshSuccess
        /\ p.retryLog = <<401, 401, 401>>
        /\ p.didLogout
        /\ p.sent = 4

\* C4: when the refresh of a handleApiError call fails, the original request
\* is never retried; the call's next step is the logout, it returns null and
\* request() throws.
C4_FailedRefreshLogout ==
    \A p \in Requesters :
        (p.settled /\ ~p.refreshSuccess) =>
            /\ p.sent = 1
            /\ p.retryLog = <<>>
            /\ p.delays = <<>>
            /\ p.pc \in {"afterRefresh", "done"}
            /\ p.pc = "done" =>
                  (p.didLogout /\ p.result = AuthFailed)

C4_Witness ==
    \E p \in Requesters :
        /\ p.settled /\ ~p.refreshSuccess
        /\ p.pc = "done"
        /\ p.didLogout
        /\ sessionData = Null

\* C5: a request() whose first fetch was answered by the server either
\* returns a response whose status is not 401, or throws the authentication
\* failure after handleApiError handled the 401 (refresh attempted, logout).
C5_NoRaw401 ==
    \A p \in Requesters :
        (p.pc = "done" /\ p.initStatus # 0) =>
            \/ /\ p.result.kind = "response"
               /\ p.result.status # 401
            \/ /\ p.result = AuthFailed
               /\ p.initStatus = 401
               /\ p.refreshCalls >= 1
               /\ p.didLogout

\* A 401, then a retry that got 401 again, then a retry answered otherwise.
C5_Witness ==
    \E p \in Requesters :
        /\ p.pc = "done"
        /\ p.initStatus = 401
        /\ Len(p.retryLog) = 2 /\ p.retryLog[1] = 401
        /\ p.result.kind = "response"

\* C6: 401, then a successful refresh, then a first retry answered with a
\* status other than 401: the call made one refresh call, the request was
\* retried once, the caller has that retry's response and no logout was done;
\* with no other caller refreshing, one refresh request was sent in all.
C6_RefreshThenRetryOnce ==
    \A p \in Requesters :
        (/\ p.initStatus = 401
         /\ p.settled /\ p.refreshSuccess
         /\ Len(p.retryLog) >= 1
         /\ p.retryLog[1] \notin {0, 401})
            => /\ p.pc = "done"
               /\ p.refreshCalls = 1
               /\ p.sent = 2
               /\ Len(p.retryLog) = 1
               /\ p.result = Response(p.retryLog[1])
               /\ ~p.didLogout
               /\ (NumberOf(RefreshCallers) = 1 => refreshFetches = 1)

C6_Witness ==
    \E p \in Requesters :
        /\ p.initStatus = 401
        /\ p.refreshSuccess
        /\ p.retryLog = <<200>>
        /\ p.result = Response(200)
        /\ NumberOf(RefreshCallers) = 1
        /\ refreshFetches = 1

\* C7: retry k waits the k-th delay of 250, 1000, 2000 ms; an attempt beyond
\* the schedule would wait the last delay; every retry is preceded by its
\* wait, and a handleApiError call retries the request at most 3 times.
C7_BackoffSchedule ==
    /\ \A p \in Callers :
          /\ Len(p.delays) <= 3
          /\ \A k \in 1..Len(p.delays) :
                p.delays[k] = <<250, 1000, 2000>>[k]
          /\ Len(p.retryLog) <= 3
          /\ p.sent <= 1 + Len(p.delays)
    /\ \A a \in 3..ProbeAttempts : RetryDelay(a) = 2000

C7_Witness ==
    \E p \in Requesters :
        /\ p.delays = <<250, 1000, 2000>>
        /\ p.sent = 4

\* C8: checkAndRefreshSession() calls refreshSession() exactly when the cache
\* holds no session, knows no expiry, or the session expires within 120 s
\* (expired included); otherwise it sends nothing, leaves the cache and the
\* manager as they are, and returns false.
C8_CheckIsNoOpUnlessDue ==
    [][\A c \in BagToSet(procs') :
         (/\ c.op = "check"
          /\ CopiesIn(c, procs') > CopiesIn(c, procs)
          /\ CopiesIn(InitProc, procs') < CopiesIn(InitProc, procs)) =>
            IF \/ sessionData = Null
               \/ sessionData.expiresAt = 0
               \/ sessionData.expiresAt - now <= 120000
            THEN /\ c.refreshCalls = 1
                 /\ c.pc = "awaitRefresh"
            ELSE /\ c.refreshCalls = 0
                 /\ c.pc = "done"
                 /\ c.result = Returned(FALSE)
                 /\ UNCHANGED <<cacheVars, mgrVars>>]_vars

\* One check found the session fresh and did nothing; a later one, made when
\* exactly 120 s remained, called refreshSession().
C8_Witness ==
    \E p, q \in Checkers :
        /\ p.pc = "done" /\ p.refreshCalls = 0
        /\ p.result = Returned(FALSE)
        /\ q.refreshCalls = 1
        /\ sessionData # Null
        /\ sessionData.expiresAt - now = 120000

\* C9: every request sent through ApiClient.request has called
\* sessionManager.checkAndRefreshSession().
C9_EveryRequestChecks ==
    \A p \in Requesters : p.sent >= 1 => p.checkCalls >= 1

\* C10: once a caller of refreshSession() that got false has handled it, the
\* cache holds no session.
C10_FailedRefreshClearsCache ==
    \A p \in RefreshCallers :
        (p.settled /\ ~p.refreshSuccess /\ p.pc = "done")
            => sessionData = Null

LoggingOutAll == {p \in Callers : p.op = "logoutAll"}
LoggingOut == {p \in Callers : p.op = "logout"}
LoggedOutByManager == {p \in Callers : p.didLogout}

\* C11: once handleLogoutAll has finished, the SessionCache is empty (no
\* session in memory, no last-refresh marker, no stored entry) and the Redux
\* user is the initial one, whether the logout-all call was answered OK, was
\* answered with an error status, or failed at network level; in each case
\* logoutAllSessions() returned true.
C11_LogoutAllClearsUnconditionally ==
    \A p \in LoggingOutAll :
        /\ p.pc = "done" =>
              /\ p.initStatus \in Outcomes
              /\ p.result = Returned(TRUE)
              /\ sessionData = Null
              /\ lastRefresh = 0
              /\ storage = NoEntry
              /\ reduxUser = InitialUser
        /\ p.pc # "idle" => sessionData = Null /\ storage = NoEntry

\* Two logout-all handlers have finished, one after a network failure and
\* one after an error status, and the client state is cleared.
C11_Witness ==
    \E p, q \in LoggingOutAll :
        /\ p.pc = "done" /\ p.gotInit /\ p.initStatus = 0
        /\ q.pc = "done" /\ q.gotInit /\ q.initStatus = 500
        /\ p.result = Returned(TRUE)
        /\ sessionData = Null
        /\ reduxUser = InitialUser

\* C12: once handleLogout has started, the client state is eventually
\* cleared (the SessionCache is empty and the Redux user is the initial
\* one), whether or not, and whenever, the logout call settles.
C12_LogoutEventuallyClears ==
    (LoggingOut # {}) ~>
        (sessionData = Null /\ storage = NoEntry /\ reduxUser = InitialUser)

\* C13: a step in which the session manager performs logoutUser() ends with
\* the SessionCache cleared (getSession() is null, isValid() is false, the
\* storage key is removed), the local identity cleared (the Redux user is
\* the initial one, localStorage has no "user" item, sessionStorage is
\* empty) and the client at the login page.
C13_LogoutUserClearsEverything ==
    [][(\E c \in BagToSet(procs') :
            c.didLogout /\ CopiesIn(c, procs') > CopiesIn(c, procs)) =>
         /\ sessionData' = Null
         /\ ~IsValid'
         /\ storage' = NoEntry
         /\ reduxUser' = InitialUser
         /\ ~localUserItem'
         /\ ~sessionItems'
         /\ location' = "/login"]_vars

\* The manager has logged a caller out and the client is at the login page
\* with nothing cached and nobody logged in.
C13_Witness ==
    /\ LoggedOutByManager # {}
    /\ location = "/login"
    /\ sessionData = Null
    /\ storage = NoEntry
    /\ reduxUser = InitialUser
    /\ ~localUserItem
    /\ ~sessionItems

\* In this step a caller makes the call that leaves it with record c.
CallMade(c) ==
    /\ c.pc = "done"
    /\ CopiesIn(InitProc, procs) > CopiesIn(InitProc, procs')
    /\ CopiesIn(c, procs') > CopiesIn(c, procs)

CacheCallers(op) == {p \in Callers : p.op = op /\ p.pc = "done"}

\* C14: needsRefresh() returns true if no session is cached, if the cached
\* session has no expiry, or if the time to expiry is at most 120 s (the
\* threshold itself and expired sessions included), and false otherwise.
C14_NeedsRefreshContract ==
    [][\A c \in BagToSet(procs') :
          (CallMade(c) /\ c.op = "needsRefresh") =>
             /\ c.result.kind = "value"
             /\ c.result.value =
                   (\/ sessionData = Null
                    \/ sessionData.expiresAt = 0
                    \/ sessionData.expiresAt - now <= 120000)
             /\ UNCHANGED cacheVars]_vars

\* needsRefresh() has just answered true for a session that expires in
\* exactly 120 s.
C14_Witness ==
    \E p \in CacheCallers("needsRefresh") :
        /\ p.result = Returned(TRUE)
        /\ sessionData # Null
        /\ sessionData.expiresAt - now = 120000

\* C15: isValid() returns true only if a session is cached and its expiry
\* lies strictly after the current time; it returns false when nothing is
\* cached, when the expiry is unknown and when the expiry equals the current
\* time.
C15_IsValidContract ==
    [][\A c \in BagToSet(procs') :
          (CallMade(c) /\ c.op = "isValid") =>
             /\ c.result.kind = "value"
             /\ c.result.value =>
                   (sessionData # Null /\ sessionData.expiresAt # 0
                    /\ sessionData.expiresAt > now)
             /\ sessionData = Null => ~c.result.value
             /\ (sessionData # Null /\ sessionData.expiresAt = 0) => ~c.result.value
             /\ (sessionData # Null /\ sessionData.expiresAt = now) => ~c.result.value
             /\ UNCHANGED cacheVars]_vars

\* isValid() has just answered false for a session that expires now.
C15_Witness ==
    \E p \in CacheCallers("isValid") :
        /\ p.result = Returned(FALSE)
        /\ sessionData # Null
        /\ sessionData.expiresAt = now

\* The cache when nothing is cached.
EmptyCache == <<Null, 0, NoEntry>>

\* C16: clear() leaves no session in memory, no last-refresh marker and no
\* stored entry; on an empty cache it returns without an error and changes
\* nothing, so a second clear() leaves what the first one left.
C16_ClearIdempotent ==
    [][\A c \in BagToSet(procs') :
          (CallMade(c) /\ c.op = "clear") =>
             /\ c.result.kind # "throw"
             /\ <<sessionData, lastRefresh, storage>>' = EmptyCache
             /\ (<<sessionData, lastRefresh, storage>> = EmptyCache
                   => UNCHANGED cacheVars)]_vars

\* clear() has just returned on a cache that was already empty.
C16_Witness ==
    \E p \in CacheCallers("clear") :
        /\ p.before = EmptyCache
        /\ p.result = Undefined
        /\ <<sessionData, lastRefresh, storage>> = EmptyCache

\* The fields a cached session has.
CachedFields == {"user", "sessionId", "expiresAt", "lastRefresh", "deviceId"}

LoginCallers == {p \in Callers : p.op = "login"}
FinishedLogins == {p \in LoginCallers : p.pc = "finished"}

\* The cache holds the session of the login answer p.reply, with the device
\* sent in p.body.
CacheHoldsLogin(p) ==
    /\ sessionData # Null
    /\ sessionData.user = p.reply.user
    /\ sessionData.sessionId = p.reply.session_id
    /\ sessionData.expiresAt = p.reply.expires_at.iso
    /\ sessionData.deviceId = p.body.device_id
    /\ storage = JSONStringify(sessionData)

\* C18 (as stated): when handleLogin has ended after a login answer with a
\* user, the cache holds that user, the session_id and expires_at of the
\* answer and the device_id sent, and the client has navigated on; when it
\* has ended after an answer without a user or after a failure, the cache is
\* as it was when the login started.
C18_LoginPopulatesCache ==
    \A p \in FinishedLogins :
        /\ p.phase = "success" => (CacheHoldsLogin(p) /\ location = "/books")
        /\ p.phase \in {"nouser", "failed"} =>
              <<sessionData, lastRefresh, storage>> = p.before

\* C18 (amended): as stated for a login answer with a user, and for logins
\* that saw no 401 (the cache is as it was).  A login whose nonce or login
\* request was answered 401 went through the refresh path of the gateway:
\* when it ends without success the cache is empty, or holds the session it
\* held before (same user, sessionId and deviceId) with the expiry the
\* refresh gave it; it is empty whenever the failure is "Authentication
\* failed".
C18_LoginCacheEffect ==
    \A p \in FinishedLogins :
        /\ p.phase = "success" => (CacheHoldsLogin(p) /\ location = "/books")
        /\ (p.phase \in {"nouser", "failed"} /\ p.refreshCalls = 0) =>
              <<sessionData, lastRefresh, storage>> = p.before
        /\ (p.phase \in {"nouser", "failed"} /\ p.refreshCalls > 0) =>
              \/ <<sessionData, lastRefresh, storage>> = EmptyCache
              \/ /\ p.before[1] # Null
                 /\ sessionData # Null
                 /\ sessionData.user = p.before[1].user
                 /\ sessionData.sessionId = p.before[1].sessionId
                 /\ sessionData.deviceId = p.before[1].deviceId
        /\ (p.phase = "failed" /\ p.result = AuthFailed) =>
              <<sessionData, lastRefresh, storage>> = EmptyCache

\* A login has succeeded over the stale session of another user: the cache
\* holds the new session and the client is at /books.
C18_Witness ==
    \E p \in FinishedLogins :
        /\ p.phase = "success"
        /\ p.before[1] # Null
        /\ p.before[1].user # p.reply.user
        /\ p.before[1].deviceId # p.body.device_id
        /\ CacheHoldsLogin(p)
        /\ location = "/books"

\* C19: a login that has built its login body obtained a nonce first, and
\* the body carries that nonce, a device_id, and as password the hash of
\* the password with that nonce, never the password as typed.
C19_PasswordHashedWithNonce ==
    \A p \in LoginCallers :
        p.body # Null =>
            /\ p.nonce \in Nonces
            /\ p.body.nonce = p.nonce
            /\ p.body.device_id \in LoginDevices
            /\ p.body.password # Password
            /\ p.body.password = [hash |-> <<Password, p.nonce>>]

\* C20: when a JSON gateway method fails on an error response other than
\* 401, the failure its caller gets carries the HTTP status of the response
\* (as a status of its own or as the status text the gateway builds) and,
\* when the response body has an error text, that text.
C20_FailureCarriesStatusAndMessage ==
    \A p \in FinishedLogins :
        (p.phase = "failed" /\ p.result.kind = "response") =>
            /\ p.result.status # 401
            /\ \/ ("status" \in DOMAIN p.failure
                     /\ p.failure.status = p.result.status)
               \/ p.failure.message = HttpErrorText(p.result.status)
            /\ p.reply.error # Null => p.failure.message = p.reply.error

\* ---------------------------------------------------------------------
\* Server: SessionStore.  The login and refresh handlers run concurrently;
\* each handler is followed step by step.
\* ---------------------------------------------------------------------

\* The browser takes no part in what the server does on its own.
ClientAtRest ==
    /\ now = StartTime
    /\ sessionData = Null
    /\ lastRefresh = 0
    /\ storage = NoEntry
    /\ isRefreshing = FALSE
    /\ refreshPromise = 0
    /\ promises = <<>>
    /\ refreshFetches = 0
    /\ reduxUser = InitialUser
    /\ windowStore = TRUE
    /\ localUserItem = FALSE
    /\ sessionItems = FALSE
    /\ location = "/login"
    /\ procs = EmptyBag
    /\ refreshLog = <<>>

NumHandlers == 2
Handlers == 1..NumHandlers
MaxServerTime == 7
\* The session lists of the users are independent: one user is followed.
ServerUsers == {"u1"}

SessionLimitSix == 5 + 1
\* The cap on the concurrent sessions of one user.
SessionLimit == 5

IdleHandler == [pc |-> "idle"]

\* The sessions of a user.
SessionsOf(user) == {s \in sessions : s.user = user}

\* A handler holds the lock of a user from taking it to its insertion.
HoldsLock(h, user) ==
    /\ handlers[h].pc \in {"evict", "insert"}
    /\ handlers[h].user = user

\* The session to evict: the one of the user refreshed longest ago.
LeastRecentlyRefreshed(user) ==
    CHOOSE s \in SessionsOf(user) :
        \A o \in SessionsOf(user) : s.lastRefreshed <= o.lastRefreshed

\* POST /login with credentials the verifier accepted: the handler is to
\* create a session for the user.
LoginArrives(h, user) ==
    /\ handlers[h].pc = "idle"
    /\ handlers' = [handlers EXCEPT ![h] =
           [pc |-> "lock", op |-> "login", user |-> user]]
    /\ UNCHANGED <<stime, sessions, nonces, buckets, clientVars, refreshLog>>

\* create(): the access to the session list of the user is serialized, so
\* the handler waits until no other handler is in create() for that user.
CreateLock(h) ==
    /\ handlers[h].pc = "lock"
    /\ \A o \in Handlers \ {h} : ~HoldsLock(o, handlers[h].user)
    /\ handlers' = [handlers EXCEPT ![h].pc = "evict"]
    /\ UNCHANGED <<stime, sessions, nonces, buckets, clientVars, refreshLog>>

\* create(): at the cap, the least-recently-refreshed session of the user
\* is evicted; the login goes on either way.
CreateEvict(h) ==
    LET user == handlers[h].user IN
    /\ handlers[h].pc = "evict"
    /\ IF Cardinality(SessionsOf(user)) >= SessionLimit
       THEN LET victim == LeastRecentlyRefreshed(user) IN
            /\ sessions' = sessions \ {victim}
            /\ handlers' = [handlers EXCEPT ![h] =
                   [pc |-> "insert", op |-> "login", user |-> user,
                    evicted |-> victim]]
       ELSE /\ sessions' = sessions
            /\ handlers' = [handlers EXCEPT ![h] =
                   [pc |-> "insert", op |-> "login", user |-> user,
                    evicted |-> Null]]
    /\ UNCHANGED <<stime, nonces, buckets, clientVars, refreshLog>>

\* create(): the new session is inserted (each login comes from a device of
\* its own) and the lock is released; the login is answered 200.
CreateInsert(h) ==
    LET user == handlers[h].user
        created == [id |-> stime + 1, user |-> user, device |-> stime + 1,
                    lastRefreshed |-> stime + 1] IN
    /\ handlers[h].pc = "insert"
    /\ stime < MaxServerTime
    /\ stime' = stime + 1
    /\ sessions' = sessions \cup {created}
    /\ handlers' = [handlers EXCEPT ![h] =
           [pc |-> "done", op |-> "login", user |-> user, status |-> 200,
            session |-> created, evicted |-> handlers[h].evicted]]
    /\ UNCHANGED <<nonces, buckets, clientVars, refreshLog>>

\* refresh(sessionId), for an id the server issued: updates
\* last-refreshed-at of a session that exists, and fails with NotFound (401)
\* otherwise.
SessionRefresh(h, id) ==
    /\ handlers[h].pc = "idle"
    /\ stime < MaxServerTime
    /\ stime' = stime + 1
    /\ IF \E s \in sessions : s.id = id
       THEN LET s == CHOOSE s \in sessions : s.id = id IN
            /\ sessions' = (sessions \ {s}) \cup
                             {[s EXCEPT !.lastRefreshed = stime + 1]}
            /\ handlers' = [handlers EXCEPT ![h] =
                   [pc |-> "done", op |-> "refresh", user |-> s.user,
                    status |-> 200]]
       ELSE /\ sessions' = sessions
            /\ handlers' = [handlers EXCEPT ![h] =
                   [pc |-> "done", op |-> "refresh", user |-> "",
                    status |-> 401]]
    /\ UNCHANGED <<nonces, buckets, clientVars, refreshLog>>

\* The handler has answered and takes the next request.
HandlerReturns(h) ==
    /\ handlers[h].pc = "done"
    /\ handlers' = [handlers EXCEPT ![h] = IdleHandler]
    /\ UNCHANGED <<stime, sessions, nonces, buckets, clientVars, refreshLog>>

InitSessions ==
    /\ ClientAtRest
    /\ stime = 0
    /\ sessions = {}
    /\ nonces = {}
    /\ buckets = {}
    /\ handlers = [h \in Handlers |-> IdleHandler]

NextSessions ==
    \/ \E h \in Handlers, user \in ServerUsers : LoginArrives(h, user)
    \/ \E h \in Handlers : CreateLock(h)
    \/ \E h \in Handlers : CreateEvict(h)
    \/ \E h \in Handlers : CreateInsert(h)
    \/ \E h \in Handlers, id \in 1..stime : SessionRefresh(h, id)
    \/ \E h \in Handlers : HandlerReturns(h)

SpecSessions == InitSessions /\ [][NextSessions]_vars

\* C21: no user ever has more than 5 sessions; a login that finds its user
\* at the cap evicts exactly the least-recently-refreshed session of that
\* user, so that 5 remain once the new one is inserted; and every valid
\* login is answered 200 with its new session in the store.
C21_CapByLruEviction ==
    [][ /\ \A u \in ServerUsers : Cardinality(SessionsOf(u)') <= 5
        /\ \A h \in Handlers :
              /\ (handlers[h].pc = "evict" /\ handlers'[h].pc = "insert") =>
                    LET mine == SessionsOf(handlers[h].user) IN
                    IF Cardinality(mine) = 5
                    THEN /\ handlers'[h].evicted \in mine
                         /\ \A o \in mine :
                               handlers'[h].evicted.lastRefreshed <= o.lastRefreshed
                         /\ sessions' = sessions \ {handlers'[h].evicted}
                    ELSE /\ handlers'[h].evicted = Null
                         /\ sessions' = sessions
              /\ (handlers[h].pc = "insert" /\ handlers'[h].pc = "done") =>
                    /\ handlers'[h].status = 200
                    /\ handlers'[h].session \in sessions'
                    /\ handlers'[h].session \notin sessions
                    /\ handlers[h].evicted # Null =>
                          Cardinality(SessionsOf(handlers[h].user)') = 5
      ]_vars

\* A sixth login of a user has evicted a session that was not the oldest
\* created of that user, while another handler was logging the user in too.
C21_Witness ==
    \E h \in Handlers :
        /\ handlers[h].pc = "done"
        /\ handlers[h].op = "login"
        /\ handlers[h].evicted # Null
        /\ \E s \in SessionsOf(handlers[h].user) : s.id < handlers[h].evicted.id
        /\ Cardinality(SessionsOf(handlers[h].user)) = 5
        /\ \E o \in Handlers \ {h} :
              handlers[o].pc = "lock" /\ handlers[o].user = handlers[h].user

\* ---------------------------------------------------------------------
\* Server: NonceIssuer and the login handler's use of it.
\* ---------------------------------------------------------------------

\* How long an unconsumed nonce lives, in steps of the server clock.
NonceTtl == 2
\* The server clock is followed up to this instant.
MaxNonceTime == 3

ReissuedNonce == IF stime = 0 THEN 1 ELSE stime
\* issue(): a value never issued before.
FreshNonce == stime + 1

\* The unconsumed, unexpired record of a nonce value, if there is one.
Unconsumed(value) ==
    {n \in nonces : n.value = value /\ stime < n.issuedAt + NonceTtl}

\* GET /nonce: a fresh nonce joins the unconsumed set.
NonceIssue(h) ==
    /\ handlers[h].pc = "idle"
    /\ stime < MaxNonceTime
    /\ stime' = stime + 1
    /\ nonces' = nonces \cup {[value |-> FreshNonce, issuedAt |-> stime + 1]}
    /\ handlers' = [handlers EXCEPT ![h] =
           [pc |-> "done", op |-> "nonce", status |-> 200, nonce |-> FreshNonce]]
    /\ UNCHANGED <<sessions, buckets, clientVars, refreshLog>>

\* POST /login presenting a nonce value that was issued at some time, with
\* a credential the verifier will accept or not.
NonceLoginArrives(h, value, accepted) ==
    /\ handlers[h].pc = "idle"
    /\ handlers' = [handlers EXCEPT ![h] =
           [pc |-> "check", op |-> "login", nonce |-> value,
            accepted |-> accepted]]
    /\ UNCHANGED <<stime, sessions, nonces, buckets, clientVars, refreshLog>>

\* The login handler checks the nonce and consumes it in one critical
\* section; a nonce it cannot find unconsumed is NonceInvalid (400).
NonceCheckAndConsume(h) ==
    LET value == handlers[h].nonce IN
    /\ handlers[h].pc = "check"
    /\ IF Unconsumed(value) # {}
       THEN /\ nonces' = nonces \ Unconsumed(value)
            /\ handlers' = [handlers EXCEPT ![h].pc = "verify"]
       ELSE /\ nonces' = nonces
            /\ handlers' = [handlers EXCEPT ![h] =
                   [pc |-> "done", op |-> "login", nonce |-> value,
                    status |-> 400, error |-> "NonceInvalid"]]
    /\ UNCHANGED <<stime, sessions, buckets, clientVars, refreshLog>>

\* The credential is verified; an accepted one gets its session (200), a
\* rejected one CredentialRejected (401).
NonceLoginVerified(h) ==
    LET value == handlers[h].nonce IN
    /\ handlers[h].pc = "verify"
    /\ IF handlers[h].accepted
       THEN /\ stime < MaxNonceTime
            /\ stime' = stime + 1
            /\ sessions' = sessions \cup
                   {[id |-> stime + 1, user |-> "u1", nonce |-> value,
                     lastRefreshed |-> stime + 1]}
            /\ handlers' = [handlers EXCEPT ![h] =
                   [pc |-> "done", op |-> "login", nonce |-> value,
                    status |-> 200]]
       ELSE /\ UNCHANGED <<stime, sessions>>
            /\ handlers' = [handlers EXCEPT ![h] =
                   [pc |-> "done", op |-> "login", nonce |-> value,
                    status |-> 401, error |-> "CredentialRejected"]]
    /\ UNCHANGED <<nonces, buckets, clientVars, refreshLog>>

\* Unconsumed nonces older than the TTL are purged.
NoncePurge ==
    /\ \E n \in nonces : stime >= n.issuedAt + NonceTtl
    /\ nonces' = {n \in nonces : stime < n.issuedAt + NonceTtl}
    /\ UNCHANGED <<stime, sessions, buckets, handlers, clientVars, refreshLog>>

InitNonce == InitSessions

NextNonce ==
    \/ \E h \in Handlers : NonceIssue(h)
    \/ \E h \in Handlers, value \in 1..stime, accepted \in BOOLEAN :
          NonceLoginArrives(h, value, accepted)
    \/ \E h \in Handlers : NonceCheckAndConsume(h)
    \/ \E h \in Handlers : NonceLoginVerified(h)
    \/ NoncePurge
    \/ \E h \in Handlers : HandlerReturns(h)

SpecNonce == InitNonce /\ [][NextNonce]_vars

\* The logins that got past the nonce check with a nonce value: those being
\* verified, and those that created a session.
ConsumedBy(value) ==
    {<<"handler", h>> : h \in {k \in Handlers :
         handlers[k].pc = "verify" /\ handlers[k].nonce = value}}
    \cup {<<"session", s.id>> : s \in {t \in sessions : t.nonce = value}}

\* C22: whatever the interleaving of the login attempts presenting one
\* nonce, at most one of them gets past the nonce check (so at most one
\* succeeds), a nonce that was consumed is no longer in the unconsumed set,
\* and every attempt that does not find the nonce unconsumed is answered
\* NonceInvalid.
C22_NonceConsumedOnce ==
    [][ /\ \A value \in 1..MaxNonceTime :
              /\ Cardinality(ConsumedBy(value)') <= 1
              /\ ConsumedBy(value)' # {} =>
                    \A n \in nonces' : n.value # value
        /\ \A h \in Handlers :
              (handlers[h].pc = "check" /\ handlers'[h].pc # "check") =>
                 IF \E n \in nonces : n.value = handlers[h].nonce
                                        /\ stime < n.issuedAt + NonceTtl
                 THEN handlers'[h].pc = "verify"
                 ELSE /\ handlers'[h].pc = "done"
                      /\ handlers'[h].status = 400
                      /\ handlers'[h].error = "NonceInvalid"
                      /\ sessions' = sessions
      ]_vars

\* Two logins presented the same nonce at the same time: one has succeeded
\* and the other has been answered NonceInvalid.
C22_Witness ==
    \E h \in Handlers, o \in Handlers :
        /\ h # o
        /\ handlers[h].pc = "done" /\ handlers[h].op = "login"
        /\ handlers[h].status = 200
        /\ handlers[o].pc = "done" /\ handlers[o].op = "login"
        /\ handlers[o].status = 400
        /\ handlers[o].nonce = handlers[h].nonce

\* ---------------------------------------------------------------------
\* Server: RateLimiter (request_counts of route_utils.py).
\* ---------------------------------------------------------------------

\* W requests are allowed per window of T seconds.
RateLimit == 2
RateWindow == 2
\* The server clock is followed up to this instant.
MaxRateTime == 5
RateKeys == {"k1", "k2"}

\* The bucket of a key, if it has one.
BucketsOf(key) == {b \in buckets : b.key = key}

\* The window of a bucket has lapsed.
Lapsed(b) == stime >= b.windowStart + RateWindow

\* request_counts is a dictionary in memory that nothing cleans up: the
\* entries of the other keys stay as they are, whatever their age.
RequestCountsKept(key) == buckets \ BucketsOf(key)

\* allow(key): the first request of a key, or the first after its window
\* has lapsed, starts a window; within the window the count is incremented
\* up to the threshold, and beyond the threshold the request is rejected.
RateAllow(h, key) ==
    /\ handlers[h].pc = "idle"
    /\ IF BucketsOf(key) = {} \/ \A b \in BucketsOf(key) : Lapsed(b)
       THEN /\ buckets' = RequestCountsKept(key) \cup
                   {[key |-> key, count |-> 1, windowStart |-> stime]}
            /\ handlers' = [handlers EXCEPT ![h] =
                   [pc |-> "done", op |-> "allow", key |-> key, allowed |-> TRUE]]
       ELSE LET b == CHOOSE b \in BucketsOf(key) : TRUE IN
            IF b.count < RateLimit
            THEN /\ buckets' = RequestCountsKept(key) \cup
                        {[b EXCEPT !.count = b.count + 1]}
                 /\ handlers' = [handlers EXCEPT ![h] =
                        [pc |-> "done", op |-> "allow", key |-> key,
                         allowed |-> TRUE]]
            ELSE /\ buckets' = buckets
                 /\ handlers' = [handlers EXCEPT ![h] =
                        [pc |-> "done", op |-> "allow", key |-> key,
                         allowed |-> FALSE]]
    /\ UNCHANGED <<stime, sessions, nonces, clientVars, refreshLog>>

\* A second passes.
ServerTick ==
    /\ stime < MaxRateTime
    /\ stime' = stime + 1
    /\ UNCHANGED <<sessions, nonces, buckets, handlers, clientVars, refreshLog>>

InitRate == InitSessions

NextRate ==
    \/ \E h \in Handlers, key \in RateKeys : RateAllow(h, key)
    \/ \E h \in Handlers : HandlerReturns(h)
    \/ ServerTick

SpecRate == InitRate /\ [][NextRate]_vars

\* C23: a request of a key that already had W requests allowed in its
\* window is rejected; a request arriving once T seconds have elapsed from
\* the window start is allowed again; and a bucket whose window has lapsed
\* is removed (here: at the latest one more window after it lapsed), so
\* that the buckets are those of the keys seen lately.
C23_RateLimiterContract ==
    [][ /\ \A h \in Handlers :
              (handlers[h].pc = "idle" /\ handlers'[h].pc = "done") =>
                 LET mine == BucketsOf(handlers'[h].key) IN
                 /\ (\E b \in mine : ~Lapsed(b) /\ b.count >= RateLimit)
                       => ~handlers'[h].allowed
                 /\ (\A b \in mine : Lapsed(b)) => handlers'[h].allowed
        /\ \A b \in buckets' : stime' < b.windowStart + 2 * RateWindow
      ]_vars

\* The callers that started the refresh now held and still await it.
RefreshOwners ==
    {p \in Callers : /\ isRefreshing
                     /\ p.pc = "awaitRefresh" /\ p.issuedFetch
                     /\ p.awaited = refreshPromise}

\* The manager is Refreshing exactly when it holds a refresh promise, and a
\* held promise that has resolved has its one owner about to resume.
ManagerConsistent ==
    /\ isRefreshing <=> refreshPromise # 0
    /\ isRefreshing =>
          /\ refreshPromise \in 1..Len(promises)
          /\ promises[refreshPromise].state = "resolved" =>
                /\ RefreshOwners # {}
                /\ \A p \in RefreshOwners : CopiesIn(p, procs) = 1

\* C24: isRefreshing is true exactly when a refresh promise is held; a
\* refresh whose network call has completed (success, non-OK answer or
\* network error) has its owner ready to resume, and the owner's resumption
\* puts the manager back to Idle (isRefreshing false, no promise held).
C24_RefreshingExactlyWhilePromiseHeld ==
    /\ []ManagerConsistent
    /\ [][ \A p \in RefreshOwners :
              (promises[refreshPromise].state = "resolved"
                 /\ CopiesIn(p, procs') # CopiesIn(p, procs))
                  => /\ ~isRefreshing'
                     /\ refreshPromise' = 0
         ]_vars

\* A refresh that ended in a network error has returned the manager to
\* Idle, while a caller that joined it has yet to resume.
C24_Witness ==
    /\ ~isRefreshing
    /\ refreshPromise = 0
    /\ \E p \in Callers, q \in Callers :
          /\ p.pc = "afterRefresh" /\ p.issuedFetch /\ ~p.refreshSuccess
          /\ q.pc = "awaitRefresh" /\ ~q.issuedFetch /\ q.awaited = p.awaited

\* ---------------------------------------------------------------------
\* Refreshes, logouts and logins of one page, with the answers the refresh
\* requests received kept on record.
\* ---------------------------------------------------------------------

\* The refresh request of promise k is answered (or its fetch rejects), as
\* RefreshRespond; the answer, its instant and whether a session was cached
\* when it arrived are recorded.
RefreshRespondLogged ==
    \E k \in 1..Len(promises), outcome \in Outcomes,
       stamp \in {Null} \cup {[iso |-> now + d] : d \in GrantedLifetimes} :
        /\ (~ResponseOk(outcome) => stamp = Null)
        /\ PerformRefreshReturn(k, outcome, stamp)
        /\ refreshLog' = Append(refreshLog,
               [promise |-> k, status |-> outcome, stamp |-> stamp,
                at |-> now, cached |-> sessionData # Null])

InitRefresh == Init

NextRefresh ==
    \/ Tick
    \/ \E p \in Callers : CheckAndRefreshSession(p)
    \/ RefreshRespondLogged
    \/ \E p \in Callers : RefreshSettle(p)
    \/ \E p \in Callers : CheckAndRefreshResume(p)
    \/ \E p \in Callers : HandleLogout(p)
    \/ \E p \in Callers, outcome \in Outcomes : LogoutSettles(p, outcome)
    \/ \E p \in Callers : HandleLogoutResume(p)
    \/ \E p \in Callers : HandleLogoutAll(p)
    \/ \E p \in Callers, outcome \in Outcomes : LogoutAllSettles(p, outcome)
    \/ \E p \in Callers : HandleLogoutAllResume(p)
    \/ \E p \in Callers, s \in SessionArgs : SetSessionCall(p, s)

SpecRefresh == InitRefresh /\ [][NextRefresh]_vars

\* The answer recorded by this step, if it is a successful refresh answer
\* carrying expires_at.
RefreshAnswered ==
    IF Len(refreshLog') = Len(refreshLog) + 1
          /\ ResponseOk(refreshLog'[Len(refreshLog')].status)
          /\ refreshLog'[Len(refreshLog')].stamp # Null
    THEN {refreshLog'[Len(refreshLog')]}
    ELSE {}

\* The cache, in memory and in storage, has the expiry the answer carries,
\* and needsRefresh() is false if that expiry is more than the threshold away.
CacheHasExpiryOf(a) ==
    /\ sessionData' # Null
    /\ sessionData'.expiresAt = DateGetTime(a.stamp)
    /\ storage' = JSONStringify(sessionData')
    /\ promises'[a.promise] = [state |-> "resolved", value |-> TRUE]
    /\ (DateGetTime(a.stamp) - now' > 120000) => ~NeedsRefresh'

RetriesSent ==
    {c \in BagToSet(procs') :
        c.pc = "retryFetch" /\ CopiesIn(c, procs') > CopiesIn(c, procs)}

\* C26: once logoutUser() has been executed for one of the requests that
\* received 401, no other request's retry is sent any more.
C26_LogoutIsTerminal ==
    [][LoggedOutByManager # {} => RetriesSent = {}]_vars

\* What a fresh SessionCache constructed now would hold.
FreshCache == LoadFromStorage(storage, now)

\* C27: whatever setSession, updateExpiry and clear calls were made, a fresh
\* SessionCache loading from storage holds the sessionData and the
\* lastRefresh the live instance holds: the session with its lastRefresh
\* while the session has not expired, and nothing when nothing is cached.
C27_StorageMirrorsMemory ==
    /\ (sessionData # Null /\ sessionData.expiresAt > now) =>
          /\ FreshCache.sessionData = sessionData
          /\ FreshCache.lastRefresh = lastRefresh
    /\ sessionData = Null =>
          /\ FreshCache.sessionData = Null
          /\ FreshCache.lastRefresh = lastRefresh

\* The page loads made in this step: the caller records, with the text read.
PageLoads == {c \in BagToSet(procs') : CallMade(c) /\ c.op = "load"}

\* C30: after loadFromStorage the cache holds a session only if the stored
\* text parsed and its expiresAt is strictly later than the load time, and
\* then it holds that entry; an entry that is expired, has no expiresAt or
\* is not JSON leaves the cache empty, is removed from storage, and no
\* identity is restored from it.
C30_LoadAdoptsOnlyValidEntry ==
    [][\A c \in PageLoads :
          LET fresh == c.arg \notin {NoEntry, Corrupt}
                          /\ JSONParse(c.arg).expiresAt # 0
                          /\ JSONParse(c.arg).expiresAt > now IN
          IF fresh
          THEN /\ sessionData' = JSONParse(c.arg)
               /\ storage' = c.arg
          ELSE /\ sessionData' = Null
               /\ lastRefresh' = 0
               /\ storage' = NoEntry
               /\ reduxUser' = InitialUser
      ]_vars

\* A page was loaded over an entry expiring at that very instant, over an
\* entry without expiresAt, or over a text that is not JSON, and the cache
\* is empty.
C30_Witness ==
    \E p \in CacheCallers("load") :
        /\ sessionData = Null
        /\ storage = NoEntry
        /\ p.before[1] # Null
        /\ \/ p.arg = Corrupt
           \/ p.arg \notin {NoEntry, Corrupt} /\ JSONParse(p.arg).expiresAt = now

\* A setSession call is made in this step.
SetSessionMade == \E c \in BagToSet(procs') : CallMade(c) /\ c.op = "setSession"

\* C28: once the cache is empty (cleared by a logout, or never filled), it
\* stays empty, in memory and in storage, until setSession is called; in
\* particular a successful refresh answer that finds no cached session
\* changes nothing.
C28_RefreshDoesNotResurrect ==
    [][ /\ (<<sessionData, lastRefresh, storage>> = EmptyCache /\ ~SetSessionMade)
              => <<sessionData', lastRefresh', storage'>> = EmptyCache
        /\ \A a \in RefreshAnswered : ~a.cached => UNCHANGED cacheVars
      ]_vars

\* A logout cleared the cache of a logged-in user, a refresh was then
\* answered 200 with a new expiry, and the cache is still empty while the
\* caller that started the refresh has yet to resume.
C28_Witness ==
    /\ <<sessionData, lastRefresh, storage>> = EmptyCache
    /\ refreshLog # <<>>
    /\ LET a == refreshLog[Len(refreshLog)] IN
       /\ a.status = 200 /\ a.stamp # Null /\ ~a.cached
       /\ \E q \in Callers : q.pc = "awaitRefresh" /\ q.issuedFetch
                               /\ q.awaited = a.promise
    /\ \E p \in Callers : p.op \in {"logout", "logoutAll"}
                            /\ p.pc \in {"logoutFetch", "logoutAllFetch"}

\* ---------------------------------------------------------------------
\* The gateway requests of one page on their own: every network call is
\* answered or rejects, and every timer fires.
\* ---------------------------------------------------------------------
InitRequests == Init

\* What the network, the timers and the event loop owe a request under way.
RequestStep ==
    \/ \E p \in Callers, outcome \in Outcomes : RequestRespond(p, outcome)
    \/ RefreshRespond
    \/ \E p \in Callers : RefreshSettle(p)
    \/ \E p \in Callers : HandleApiErrorResume(p)
    \/ \E p \in Callers : RetrySend(p)
    \/ \E p \in Callers, outcome \in Outcomes : RetryRespond(p, outcome)

NextRequests ==
    \/ \E p \in Callers : RequestSend(p)
    \/ RequestStep

SpecRequests == InitRequests /\ [][NextRequests]_vars
FairSpecRequests == SpecRequests /\ WF_vars(RequestStep)

\* A request sends the original request at most 4 times and calls for one
\* refresh at most; every retry answered 401 or rejected counts as one
\* attempt; and a request whose 3 retries all failed, in whatever mix, has
\* logged the user out and fails with "Authentication failed".
RequestBounded ==
    \A p \in Requesters :
        /\ p.sent <= 4
        /\ p.refreshCalls <= 1
        /\ Len(p.retryLog) <= 3
        /\ p.sent <= 1 + Len(p.retryLog) + 1
        /\ p.pc \in {"retryWait", "retryFetch"} =>
              /\ p.attempt = Len(p.retryLog)
              /\ \A k \in 1..Len(p.retryLog) : p.retryLog[k] \in {0, 401}
        /\ (Len(p.retryLog) = 3 /\ \A k \in 1..3 : p.retryLog[k] \in {0, 401}) =>
              /\ p.pc = "done"
              /\ p.sent = 4
              /\ p.didLogout
              /\ p.result = AuthFailed

\* C29: a request never sends the original request more than 4 times nor
\* calls for more than one refresh, 3 failed retries (401s and network
\* errors alike) end it in logout and "Authentication failed", and every
\* request under way comes to its end.
C29_RequestTerminates ==
    /\ []RequestBounded
    /\ (\E p \in Requesters : p.pc # "done") ~> (\A p \in Requesters : p.pc = "done")

\* A request has ended in logout after three retries of which some were
\* answered 401 and some threw a network error.
C29_Witness ==
    \E p \in Requesters :
        /\ p.pc = "done"
        /\ p.sent = 4
        /\ p.refreshCalls = 1
        /\ Len(p.retryLog) = 3
        /\ \E j, k \in 1..3 : p.retryLog[j] = 0 /\ p.retryLog[k] = 401
        /\ p.didLogout
        /\ p.result = AuthFailed
====
